---- MODULE Spec2Model ----
(***************************************************************************)
(* FlowG workflow execution engine (WorkflowExecutionEngine):              *)
(* createExecutionPlan (Kahn's topological sort over JavaScript objects),  *)
(* executeNode and executeWorkflow with the caller-supplied                *)
(* onNodeStatusUpdate / onExecutionLog callbacks.                          *)
(***************************************************************************)
EXTENDS Integers, Sequences, FiniteSets, TLC

\* ------------------------------------------------------------------ bounds
\* Longest node list handed to the engine.
MaxNodes == 3
\* Longest edge list handed to createExecutionPlan on its own.
MaxEdges == 3
\* Longest edge list handed to a whole executeWorkflow run.
MaxRunEdges == 2
\* Longest node list of a run whose node types are looked at.
MaxTypedNodes == 2
\* Longest edge list held by the workflow store.
MaxStoreEdges == 1
\* Number of times the store's executeWorkflow is started.
MaxRuns == 2
\* Number of retrievals made from the storage clients.
MaxRetrievals == 2
\* Longest array handed to the logic handler.
MaxItems == 3
\* Number of nodes of a workflow whose nodes carry an operation.
MaxOperationNodes == 1
\* Number of nodes of a workflow held or loaded by the store when every store
\* action may be called.
MaxLoadedNodes == 1
\* Number of saveWorkflow calls made for one SavedWorkflow.
MaxSaves == 4

\* Node ids the inputs are drawn from: "2" is an integer-like property key,
\* "a" and "b" are ordinary string keys.
NodeIds == {"2", "a", "b"}

\* The ids that JavaScript treats as array-index property keys, with their
\* numeric value (such keys are enumerated first, in ascending order).
IntValue == [k \in {"2"} |-> 2]

\* ----------------------------------------------------------------- helpers
Range(s) == {s[i] : i \in DOMAIN s}

SeqsUpTo(S, n) == UNION {[1..k -> S] : k \in 0..n}

\* Node lists: every id at most once (WorkflowNode.id is unique on the canvas).
NodeLists == {s \in SeqsUpTo(NodeIds, MaxNodes) :
                \A i, j \in DOMAIN s : i # j => s[i] # s[j]}

\* An edge is <<source, target>>; an endpoint may name a node that is absent.
EdgeLists(n) == SeqsUpTo(NodeIds \X NodeIds, n)

IndexOf(s, x) == IF x \in Range(s) THEN CHOOSE i \in DOMAIN s : s[i] = x ELSE 0

RECURSIVE SortKeys(_)
SortKeys(S) ==
  IF S = {} THEN <<>>
  ELSE LET m == CHOOSE x \in S : \A y \in S : IntValue[x] <= IntValue[y]
       IN <<m>> \o SortKeys(S \ {m})

\* Object.keys(obj) for an object whose properties were created in the order
\* of the sequence ins: integer-like keys ascending, then the other keys in
\* insertion order.
ObjectKeys(ins) ==
  LET isInt(k) == k \in DOMAIN IntValue
      isStr(k) == k \notin DOMAIN IntValue
  IN SortKeys({k \in Range(ins) : isInt(k)}) \o SelectSeq(ins, isStr)

\* JavaScript truthiness of a string (edge.source && edge.target).
Truthy(s) == s # ""

\* ------------------------------------------------------- createExecutionPlan
\* The edges the "Build dependency graph" loop accepts.
ValidEdges(ns, es) ==
  LET ok(e) == /\ Truthy(e[1]) /\ Truthy(e[2])
               /\ e[1] \in Range(ns) /\ e[2] \in Range(ns)
  IN SelectSeq(es, ok)

\* dependencies[t]: the source of every accepted edge into t, in edge order,
\* one entry per edge (a repeated edge is pushed again).
BuildDependencies(ns, es) ==
  [t \in Range(ns) |->
     LET into(e) == e[2] = t
         inc == SelectSeq(ValidEdges(ns, es), into)
     IN [i \in DOMAIN inc |-> inc[i][1]]]

\* inDegree[t]: incremented once per accepted edge into t.
BuildInDegree(ns, es) ==
  [t \in Range(ns) |-> Len(BuildDependencies(ns, es)[t])]

\* The while loop: shift the queue, push to executionOrder, and for every key
\* of dependencies that includes the popped node decrement its inDegree once,
\* enqueueing it when the count is exactly 0.
RECURSIVE KahnLoop(_, _, _, _, _)
KahnLoop(queue, order, inDegree, deps, keys) ==
  IF queue = <<>> THEN order
  ELSE LET currentNode == Head(queue)
           hit(k) == currentNode \in Range(deps[k])
           inDegree2 == [k \in DOMAIN inDegree |->
                           IF hit(k) THEN inDegree[k] - 1 ELSE inDegree[k]]
           released(k) == hit(k) /\ inDegree2[k] = 0
       IN KahnLoop(Tail(queue) \o SelectSeq(keys, released),
                   Append(order, currentNode), inDegree2, deps, keys)

\* A plausible slip: every node is seeded, whatever its inDegree.
SeedQueueAll(keys, inDegree) == keys

\* A plausible slip: only the first ready node is enqueued.
SeedQueueHead(keys, inDegree) ==
  LET ready(k) == inDegree[k] = 0
      all == SelectSeq(keys, ready)
  IN IF all = <<>> THEN <<>> ELSE <<Head(all)>>

\* "Find nodes with no dependencies": the keys of inDegree whose count is 0.
SeedQueue(keys, inDegree) ==
  LET ready(k) == inDegree[k] = 0
  IN SelectSeq(keys, ready)

createExecutionPlan(ns, es) ==
  LET deps == BuildDependencies(ns, es)
      inDegree == BuildInDegree(ns, es)
      keys == ObjectKeys(ns)
  IN [executionOrder |-> KahnLoop(SeedQueue(keys, inDegree), <<>>, inDegree, deps, keys),
      dependencies |-> deps]

NoPlan == [executionOrder |-> <<>>, dependencies |-> <<>>]

\* ------------------------------------------------------------ engine values
\* What a node's type handler does when it is awaited.
Behaviours == {"returns", "throws"}

\* What one invocation of a caller-supplied callback does.
CallbackOutcomes == {"returns", "throws"}

\* The node types the dispatch of executeNode knows, and one it does not.
KnownTypes == {"input", "ai-compute", "storage", "chain-interaction", "logic", "output"}
NodeTypes == KnownTypes \cup {"custom"}
\* A node whose type is left open has some handler: the default case of the
\* switch is not taken for it.
HasHandler(type) == type \in KnownTypes \cup {"any"}

NoError == <<>>
\* The message of an exception thrown by a caller-supplied callback.
CallbackError == <<"callback threw">>
\* The message of an exception thrown inside a type handler.
HandlerError == <<"handler threw">>

EmptyMap == <<>>

\* The ExecutionLogEntry built by log(level, message, nodeId).
LogEntry(level, message, nodeId) ==
  [level |-> level, message |-> message, nodeId |-> nodeId]

\* One call onNodeStatusUpdate(nodeId, status, ...).
StatusCall(nodeId, status) == [nodeId |-> nodeId, status |-> status]

\* The value a type handler resolves with.
HandlerResult(nodeId) == <<[producedBy |-> nodeId]>>

NoReturn == [kind |-> "pending", success |-> FALSE, results |-> EmptyMap, error |-> NoError]

\* The promise returned by executeWorkflow rejects with an exception.
Rejected(err) == [kind |-> "rejected", success |-> FALSE, results |-> EmptyMap, error |-> err]

\* return { success: true, results }
ReturnSuccess(res) == [kind |-> "returned", success |-> TRUE, results |-> res, error |-> NoError]

\* return { success: false, results: {}, error: errorMessage }
ReturnFailure(res, errorMessage) ==
  [kind |-> "returned", success |-> FALSE, results |-> EmptyMap, error |-> errorMessage]

\* executeNode: return { success: true, result }
NodeSuccess(result) == [success |-> TRUE, result |-> result, error |-> NoError]

\* executeNode: return { success: false, error: errorMessage }
NodeFailure(errorMessage) == [success |-> FALSE, result |-> <<>>, error |-> errorMessage]

\* A plausible slip: the running report is left out.
RunningCallsMissing(nodeId) == <<>>

\* executeNode reports running before it dispatches to the handler.
RunningCalls(nodeId) == <<StatusCall(nodeId, "running")>>

\* A plausible slip: the driver does not look at the node's result.
NodeFailedIgnored(result) == FALSE

\* executeWorkflow: if (!result.success) throw ...
NodeFailed(result) == ~result.success

\* new Error(`Node execution failed: ${node.data.label} - ${result.error}`)
NodeFailedError(nodeId, result) == <<"Node execution failed", nodeId>> \o result.error

\* A plausible slip: the assignment is left out.
PutNothing(map, key, value) == map

\* results[nodeId] = result / context.outputs[node.id] = result
Put(map, key, value) == [k \in DOMAIN map \cup {key} |-> IF k = key THEN value ELSE map[k]]

\* The catch block of executeWorkflow: log the failure, then return it. A
\* throwing onExecutionLog leaves the block by exception: the promise rejects.
WorkflowCatch(res, errorMessage, logOutcome) ==
  [logs |-> <<LogEntry("error", "Workflow execution failed", "")>>,
   ret |-> IF logOutcome = "throws" THEN Rejected(CallbackError)
           ELSE ReturnFailure(res, errorMessage)]

\* The catch block of executeNode: log, report status error, return the
\* failure. A throwing callback leaves the block (and executeNode) by exception.
NodeCatch(nodeId, errorMessage, logOutcome, statusOutcome) ==
  [logs |-> <<LogEntry("error", "Node failed", nodeId)>>,
   statuses |-> IF logOutcome = "throws" THEN <<>> ELSE <<StatusCall(nodeId, "error")>>,
   thrown |-> logOutcome = "throws" \/ statusOutcome = "throws",
   result |-> NodeFailure(errorMessage)]

\* ------------------------------------------------------- dispatch on type
\* this.zgComputeService = new ZGComputeService(privateKey), not yet initialized
KeyServices == [compute |-> "created", storage |-> "unset", chain |-> "unset"]

\* new Error(`Unknown node type: ${node.type}`)
UnknownTypeError(type) == <<"Unknown node type", type>>
\* StorageService: throw new Error('StorageService not initialized')
NotInitializedError == <<"StorageService not initialized">>

\* The fields of the object a type handler resolves with.
ResultFields(type, mode) ==
  CASE type = "ai-compute" /\ mode = "live" -> {"success", "result", "error"}
    [] type = "ai-compute" /\ mode = "simulated" -> {"success", "result", "operation"}
    [] type = "storage" /\ mode = "live" -> {"success", "hash", "metadata"}
    [] type = "storage" /\ mode = "simulated" -> {"success", "hash", "operation"}
    [] type = "chain-interaction" /\ mode = "live" -> {"success", "transactionHash", "result"}
    [] type = "chain-interaction" /\ mode = "simulated" -> {"success", "transactionHash", "operation"}
    [] type = "input" -> {"previousOutputs"}
    [] type = "logic" -> {"success", "result"}
    [] type = "output" -> {"success", "output", "format", "timestamp"}
    [] OTHER -> {}

\* The one context.outputs object of a run, as a reference to it.
OutputsReference == [ref |-> "context.outputs"]

\* getNodeInputs: { ...context.variables, previousOutputs: context.outputs };
\* the new object's previousOutputs is what it is handed, not a copy of it.
getNodeInputs(contextOutputs) == [previousOutputs |-> contextOutputs]

\* The value a type handler resolves with: its fields and its success field.
\* The input, logic (passthrough) and output handlers put the inputData
\* object itself into the value they return.
\* A compute client whose providers are not discovered yet answers
\* success: false; an input node's value has no success field.
TypedResult(nodeId, type, mode, svc, inputData) ==
  <<[producedBy |-> nodeId,
     fields |-> ResultFields(type, mode),
     carries |-> IF type \in {"input", "logic", "output"} THEN <<inputData>> ELSE <<>>,
     success |-> /\ type # "input"
                 /\ ~(type = "ai-compute" /\ mode = "live" /\ svc.compute # "ready")]>>

\* A handler that runs off its end resolves with undefined.
UndefinedResult == <<>>

\* data.config.operation of a storage node (StorageConfig) and of a
\* chain-interaction node (ChainInteractionConfig and the engine's 'execute');
\* "absent" when the node has none.
StorageOperations == {"absent", "store", "retrieve"}
ChainOperations ==
  {"absent", "execute", "deploy-contract", "call-contract", "wrap-og", "unwrap-og"}

\* executeStorageNode with a client: operation || 'store' is 'store' or 'retrieve'.
LiveStorageOperation(operation) == operation \in {"absent", "store", "retrieve"}

\* executeChainInteractionNode with a client: operation || 'execute' is 'execute'.
LiveChainOperation(operation) == operation \in {"absent", "execute"}

\* The switch of executeNode and the first branch of the handler it calls:
\* which collaborator the handler uses, whether it goes to the live client or
\* simulates, and what the awaited handler will do. For a node whose type is
\* left open ("any") the handler does what `oracle` says.
Dispatch(nodeId, type, operation, svc, inputData, oracle) ==
  LET call(collaborator, mode, outcome, err) ==
        [nodeId |-> nodeId, collaborator |-> collaborator, mode |-> mode,
         outcome |-> outcome, error |-> err,
         result |-> TypedResult(nodeId, type, mode, svc, inputData)]
      fallsThrough(collaborator) ==
        [nodeId |-> nodeId, collaborator |-> collaborator, mode |-> "live",
         outcome |-> "returns", error |-> NoError, result |-> UndefinedResult]
  IN CASE type = "ai-compute" ->
            IF svc.compute # "unset"
            THEN call("compute", "live", "returns", NoError)
            ELSE call("compute", "simulated", "returns", NoError)
       [] type = "storage" ->
            IF svc.storage = "unset"
            THEN call("storage", "simulated", "returns", NoError)
            ELSE IF ~LiveStorageOperation(operation)
            THEN fallsThrough("storage")
            ELSE IF svc.storage = "created"
            THEN call("storage", "live", "throws", NotInitializedError)
            ELSE call("storage", "live", "returns", NoError)
       [] type = "chain-interaction" ->
            IF svc.chain # "unset"
            THEN IF LiveChainOperation(operation)
                 THEN call("chain", "live", "returns", NoError)
                 ELSE fallsThrough("chain")
            ELSE call("chain", "simulated", "returns", NoError)
       [] type \in {"input", "logic", "output"} ->
            call("none", "local", "returns", NoError)
       [] type = "any" ->
            [nodeId |-> nodeId, collaborator |-> "none", mode |-> "any",
             outcome |-> oracle, error |-> HandlerError,
             result |-> HandlerResult(nodeId)]
       [] OTHER -> call("none", "none", "throws", UnknownTypeError(type))

\* ------------------------------------------------------------------- state
VARIABLES
  nodes,        \* the node list argument (ids, in list order)
  edges,        \* the edge list argument
  behaviour,    \* node id -> what its handler does in this run
  pc,           \* position of the call
  plan,         \* the ExecutionPlan
  cursor,       \* position of the for loop in plan.executionOrder
  outputs,      \* context.outputs
  results,      \* the local results map of executeWorkflow
  ret,          \* what the promise of executeWorkflow settled with
  statusCalls,  \* the calls made to onNodeStatusUpdate, in order
  handlerCalls, \* the nodes whose type handler was invoked, in order
  logCalls,     \* the entries handed to onExecutionLog, in order
  nodeType,     \* node id -> node.type
  services,     \* zgComputeService / zgStorageService / zgChainService
  initPc,       \* position of the initializeServices call of the constructor
  modeCalls,    \* per handler invocation: what the dispatch decided
  nodeStatus,   \* store: node id -> node.data.status
  isExecuting,  \* store: isExecuting
  storePc,      \* store: position of the executeWorkflow call in progress
  loopIndex,    \* store: the loop index of executeWorkflow
  resetTimers,  \* store: pending setTimeout callbacks of finally blocks
  runsStarted,  \* store: number of executeWorkflow calls so far
  statusSets,   \* store: the status writes of the current run, in order
  statusChanges, \* store: the <<from, to>> pairs of all status changes so far
  payload,      \* storage: the payload handed to storeData
  storedHash,   \* storage: the hash storeData returned
  remote,       \* storage: the content the network holds under that hash
  retrievals,   \* storage: the retrievals made, with what they returned
  nodeOperation, \* node id -> data.config.operation, "absent" when not configured
  handlerCall,  \* a type handler called on its own: which one, and its arguments
  handlerReturn, \* what that call returned
  inFlight,     \* store: the executeWorkflow calls that have not returned, each with
                \* the node list it read and its loop index
  currentVersion, \* persistence: workflow.currentVersion
  versions,     \* persistence: the version numbers in workflow.versions, in order
  pendingSaves, \* persistence: the version objects of the saves awaiting the DA layer
  savesStarted  \* persistence: number of saveWorkflow calls made

vars == <<nodes, edges, behaviour, pc, plan, cursor, outputs, results, ret,
          statusCalls, handlerCalls, logCalls,
          nodeType, nodeOperation, services, initPc, modeCalls,
          nodeStatus, isExecuting, storePc, loopIndex, resetTimers, runsStarted,
          statusSets, statusChanges,
          payload, storedHash, remote, retrievals,
          handlerCall, handlerReturn,
          inFlight, currentVersion, versions, pendingSaves, savesStarted>>

\* The collaborators of the engine: the clients and how far their
\* initialization has come.
clients == <<services, initPc>>

\* The state of the workflow store (useWorkflowStore), which the engine
\* neither reads nor writes.
store == <<nodeStatus, isExecuting, storePc, loopIndex, resetTimers, runsStarted,
           statusSets, statusChanges>>

\* The storage clients' calls taken on their own.
storage == <<payload, storedHash, remote, retrievals>>

\* A type handler called on its own.
handlers == <<handlerCall, handlerReturn>>

\* The parts taken on their own, apart from the engine's run, the store and
\* the storage clients.
flights == <<inFlight>>
persistence == <<currentVersion, versions, pendingSaves, savesStarted>>
apart == <<handlers, flights, persistence>>

\* What a run reads and never writes.
graph == <<nodes, edges, behaviour, nodeType, nodeOperation, clients, store, storage, apart>>
run == <<cursor, outputs, results, ret, statusCalls, handlerCalls, logCalls, modeCalls>>

\* No private key was handed to the constructor: no collaborator is set.
NoServices == [compute |-> "unset", storage |-> "unset", chain |-> "unset"]

\* The store as created: nodes are idle and nothing is executing.
InitStoreState ==
  /\ nodeStatus = [n \in Range(nodes) |-> "idle"]
  /\ isExecuting = FALSE
  /\ storePc = "idle"
  /\ loopIndex = 0
  /\ resetTimers = 0
  /\ runsStarted = 0
  /\ statusSets = <<>>
  /\ statusChanges = {}

\* Nothing has been stored or retrieved.
InitStorageState ==
  /\ payload = "none"
  /\ storedHash = "none"
  /\ remote = "none"
  /\ retrievals = <<>>

\* No handler has been called on its own.
InitHandlerState ==
  /\ handlerCall = <<>>
  /\ handlerReturn = <<>>

\* No executeWorkflow call of the store is in flight.
InitFlights == inFlight = <<>>

\* createNewWorkflow: currentVersion: 0, versions: []
InitPersistence ==
  /\ currentVersion = 0
  /\ versions = <<>>
  /\ pendingSaves = <<>>
  /\ savesStarted = 0

\* The parts taken on their own are at rest.
InitApart == InitHandlerState /\ InitFlights /\ InitPersistence

\* The node types are not looked at: the handlers' outcomes are `behaviour`,
\* and no private key was given.
InitAbstract ==
  /\ InitStoreState
  /\ InitStorageState
  /\ InitApart
  /\ nodeType = [n \in Range(nodes) |-> "any"]
  /\ nodeOperation = [n \in Range(nodes) |-> "absent"]
  /\ services = NoServices
  /\ initPc = "none"

InitRun ==
  /\ pc = "idle"
  /\ plan = NoPlan
  /\ cursor = 0
  /\ outputs = EmptyMap
  /\ results = EmptyMap
  /\ ret = NoReturn
  /\ statusCalls = <<>>
  /\ handlerCalls = <<>>
  /\ logCalls = <<>>
  /\ modeCalls = <<>>

\* ------------------------------------------- createExecutionPlan on its own
InitPlan ==
  /\ nodes \in NodeLists
  /\ edges \in EdgeLists(MaxEdges)
  /\ behaviour = [n \in Range(nodes) |-> "returns"]
  /\ InitAbstract
  /\ InitRun

CallCreateExecutionPlan ==
  /\ pc = "idle"
  /\ plan' = createExecutionPlan(nodes, edges)
  /\ pc' = "planned"
  /\ UNCHANGED <<graph, run>>

NextPlan == CallCreateExecutionPlan

SpecPlan == InitPlan /\ [][NextPlan]_vars

\* ----------------------------------------------------------- executeWorkflow
Init ==
  /\ nodes \in NodeLists
  /\ edges \in EdgeLists(MaxRunEdges)
  /\ behaviour \in [Range(nodes) -> Behaviours]
  /\ InitAbstract
  /\ InitRun

\* The call up to the for loop: the starting log entry (outside the try), the
\* plan, the plan log entry, the fresh context and results.
StartWorkflow ==
  /\ pc = "idle"
  /\ \E startLog, planLog, catchLog \in CallbackOutcomes :
       LET newPlan == createExecutionPlan(nodes, edges)
           caught == WorkflowCatch(EmptyMap, CallbackError, catchLog)
       IN IF startLog = "throws"
          THEN /\ logCalls' = logCalls \o <<LogEntry("info", "Starting workflow execution", "")>>
               /\ ret' = Rejected(CallbackError)
               /\ pc' = "done"
               /\ UNCHANGED <<plan, cursor>>
          ELSE /\ plan' = newPlan
               /\ cursor' = 1
               /\ IF planLog = "throws"
                  THEN /\ logCalls' = logCalls
                            \o <<LogEntry("info", "Starting workflow execution", ""),
                                 LogEntry("info", "Execution plan created", "")>>
                            \o caught.logs
                       /\ ret' = caught.ret
                       /\ pc' = "done"
                  ELSE /\ logCalls' = logCalls
                            \o <<LogEntry("info", "Starting workflow execution", ""),
                                 LogEntry("info", "Execution plan created", "")>>
                       /\ ret' = ret
                       /\ pc' = "loop"
  /\ outputs' = EmptyMap
  /\ results' = EmptyMap
  /\ UNCHANGED <<graph, statusCalls, handlerCalls, modeCalls>>

\* What the driver does with the value executeNode returned: record it in
\* results, and either go on to the next node or throw into its catch block.
\* `aborted` is set when executeNode itself left by exception.
AfterNode(nodeId, nodeResult, aborted, catchLog) ==
  LET recorded == IF aborted THEN results ELSE Put(results, nodeId, nodeResult)
      caught == WorkflowCatch(recorded,
                  IF aborted THEN CallbackError ELSE NodeFailedError(nodeId, nodeResult),
                  catchLog)
  IN IF aborted \/ NodeFailed(nodeResult)
     THEN [results |-> recorded, logs |-> caught.logs, ret |-> caught.ret,
           pc |-> "done", cursor |-> cursor]
     ELSE [results |-> recorded, logs |-> <<>>, ret |-> ret,
           pc |-> "loop", cursor |-> cursor + 1]

\* One turn of the for loop up to the await of the type handler: look the
\* node up, then executeNode logs, reports running and dispatches on
\* node.type. An unknown type throws before anything is awaited: the catch
\* block of executeNode and the driver's reaction follow in the same turn.
BeginNode ==
  /\ pc = "loop"
  /\ cursor <= Len(plan.executionOrder)
  /\ \E execLog, runningStatus, failLog, failStatus, catchLog \in CallbackOutcomes :
       LET nodeId == plan.executionOrder[cursor]
           found == nodeId \in Range(nodes)
           entry == <<LogEntry("info", "Executing node", nodeId)>>
           caught == WorkflowCatch(results,
                       IF found THEN CallbackError ELSE <<"Node not found", nodeId>>,
                       catchLog)
           call == Dispatch(nodeId, nodeType[nodeId], nodeOperation[nodeId], services,
                            getNodeInputs(OutputsReference), behaviour[nodeId])
           nodeCatch == NodeCatch(nodeId, call.error, failLog, failStatus)
           after == AfterNode(nodeId, nodeCatch.result, nodeCatch.thrown, catchLog)
       IN IF ~found
          THEN /\ logCalls' = logCalls \o caught.logs
               /\ ret' = caught.ret
               /\ pc' = "done"
               /\ UNCHANGED <<statusCalls, handlerCalls, modeCalls, cursor, results>>
          ELSE IF execLog = "throws"
          THEN /\ logCalls' = logCalls \o entry \o caught.logs
               /\ ret' = caught.ret
               /\ pc' = "done"
               /\ UNCHANGED <<statusCalls, handlerCalls, modeCalls, cursor, results>>
          ELSE IF runningStatus = "throws"
          THEN /\ logCalls' = logCalls \o entry \o caught.logs
               /\ statusCalls' = statusCalls \o RunningCalls(nodeId)
               /\ ret' = caught.ret
               /\ pc' = "done"
               /\ UNCHANGED <<handlerCalls, modeCalls, cursor, results>>
          ELSE IF HasHandler(nodeType[nodeId])
          THEN /\ logCalls' = logCalls \o entry
               /\ statusCalls' = statusCalls \o RunningCalls(nodeId)
               /\ handlerCalls' = Append(handlerCalls, nodeId)
               /\ modeCalls' = Append(modeCalls, call)
               /\ pc' = "await"
               /\ UNCHANGED <<ret, cursor, results>>
          ELSE /\ logCalls' = logCalls \o entry \o nodeCatch.logs \o after.logs
               /\ statusCalls' = statusCalls \o RunningCalls(nodeId) \o nodeCatch.statuses
               /\ results' = after.results
               /\ ret' = after.ret
               /\ pc' = after.pc
               /\ cursor' = after.cursor
               /\ UNCHANGED <<handlerCalls, modeCalls>>
  /\ UNCHANGED <<graph, plan, outputs>>

\* The awaited handler resolves: executeNode stores the result in
\* context.outputs, logs, reports completed and returns success; a callback
\* that throws there lands in executeNode's own catch block.
HandlerReturns ==
  /\ pc = "await"
  /\ modeCalls[Len(modeCalls)].outcome = "returns"
  /\ \E doneLog, doneStatus, failLog, failStatus, catchLog \in CallbackOutcomes :
       LET nodeId == plan.executionOrder[cursor]
           entry == <<LogEntry("info", "Node completed", nodeId)>>
           completed == IF doneLog = "throws" THEN <<>>
                        ELSE <<StatusCall(nodeId, "completed")>>
           inCatch == doneLog = "throws" \/ doneStatus = "throws"
           nodeCatch == NodeCatch(nodeId, CallbackError, failLog, failStatus)
           call == modeCalls[Len(modeCalls)]
           after == IF inCatch
                    THEN AfterNode(nodeId, nodeCatch.result, nodeCatch.thrown, catchLog)
                    ELSE AfterNode(nodeId, NodeSuccess(call.result), FALSE, catchLog)
       IN /\ outputs' = Put(outputs, nodeId, call.result)
          /\ statusCalls' = statusCalls \o completed
                              \o (IF inCatch THEN nodeCatch.statuses ELSE <<>>)
          /\ logCalls' = logCalls \o entry
                              \o (IF inCatch THEN nodeCatch.logs ELSE <<>>)
                              \o after.logs
          /\ results' = after.results
          /\ ret' = after.ret
          /\ pc' = after.pc
          /\ cursor' = after.cursor
  /\ UNCHANGED <<graph, plan, handlerCalls, modeCalls>>

\* The awaited handler throws: executeNode's catch block logs, reports error
\* and returns the failure, which the driver turns into the run's failure.
HandlerThrows ==
  /\ pc = "await"
  /\ modeCalls[Len(modeCalls)].outcome = "throws"
  /\ \E failLog, failStatus, catchLog \in CallbackOutcomes :
       LET nodeId == plan.executionOrder[cursor]
           nodeCatch == NodeCatch(nodeId, modeCalls[Len(modeCalls)].error, failLog, failStatus)
           after == AfterNode(nodeId, nodeCatch.result, nodeCatch.thrown, catchLog)
       IN /\ statusCalls' = statusCalls \o nodeCatch.statuses
          /\ logCalls' = logCalls \o nodeCatch.logs \o after.logs
          /\ results' = after.results
          /\ ret' = after.ret
          /\ pc' = after.pc
          /\ cursor' = after.cursor
  /\ UNCHANGED <<graph, plan, outputs, handlerCalls, modeCalls>>

\* The for loop is exhausted: log the success and return it.
FinishWorkflow ==
  /\ pc = "loop"
  /\ cursor > Len(plan.executionOrder)
  /\ \E doneLog, catchLog \in CallbackOutcomes :
       LET entry == <<LogEntry("info", "Workflow execution completed successfully", "")>>
           caught == WorkflowCatch(results, CallbackError, catchLog)
       IN IF doneLog = "throws"
          THEN /\ logCalls' = logCalls \o entry \o caught.logs
               /\ ret' = caught.ret
          ELSE /\ logCalls' = logCalls \o entry
               /\ ret' = ReturnSuccess(results)
  /\ pc' = "done"
  /\ UNCHANGED <<graph, plan, cursor, outputs, results, statusCalls, handlerCalls, modeCalls>>

Next ==
  \/ StartWorkflow
  \/ BeginNode
  \/ HandlerReturns
  \/ HandlerThrows
  \/ FinishWorkflow

Spec == Init /\ [][Next]_vars

\* --------------------------------------- a run whose node types are looked at
\* The engine is constructed with or without a private key; with one, the constructor has called
\* initializeServices, which has created the compute client and is awaiting its
\* initialize(). executeWorkflow may be called at any point after that.
\* The dispatch looks at one node at a time: node lists in key order, without
\* edges, so that the plan's order is the list.
TypedNodeLists == {s \in NodeLists : Len(s) <= MaxTypedNodes /\ ObjectKeys(s) = s}

InitTyped ==
  /\ nodes \in TypedNodeLists
  /\ edges = <<>>
  /\ behaviour = [n \in Range(nodes) |-> "returns"]
  /\ nodeType \in [Range(nodes) -> NodeTypes]
  /\ nodeOperation = [n \in Range(nodes) |-> "absent"]
  /\ InitStoreState
  /\ InitStorageState
  /\ InitApart
  /\ \E privateKey \in BOOLEAN :
       /\ services = IF privateKey THEN KeyServices ELSE NoServices
       /\ initPc = IF privateKey THEN "compute" ELSE "none"
  /\ InitRun

\* initializeServices: the compute client's initialize() resolves (it falls
\* back to built-in providers when discovery fails, so it does not reject);
\* the storage client is created and its initialize() awaited.
ComputeInitialized ==
  /\ initPc = "compute"
  /\ services' = [services EXCEPT !.compute = "ready", !.storage = "created"]
  /\ initPc' = "storage"
  /\ UNCHANGED <<nodes, edges, behaviour, nodeType, nodeOperation, store, storage, apart, pc, plan, run>>

\* initializeServices: the storage client's initialize() resolves; the chain
\* client is created and the success is logged. If onExecutionLog throws
\* there, the catch block logs the failure and rethrows, and the
\* constructor's catch logs a warning; the three clients stay set.
StorageInitialized ==
  /\ initPc = "storage"
  /\ services' = [services EXCEPT !.storage = "ready", !.chain = "set"]
  /\ \E okLog \in CallbackOutcomes :
       logCalls' = logCalls
         \o <<LogEntry("info", "0G Network services initialized", "")>>
         \o (IF okLog = "throws"
             THEN <<LogEntry("error", "Failed to initialize 0G services", ""),
                    LogEntry("warn", "Failed to initialize 0G services", "")>>
             ELSE <<>>)
  /\ initPc' = "done"
  /\ UNCHANGED <<nodes, edges, behaviour, nodeType, nodeOperation, store, storage, apart, pc, plan,
                 cursor, outputs, results, ret, statusCalls, handlerCalls, modeCalls>>

\* initializeServices: the storage client's initialize() rejects; the catch
\* block logs and rethrows, the constructor's catch logs a warning. The
\* storage client stays created and uninitialized, the chain client unset.
StorageInitFails ==
  /\ initPc = "storage"
  /\ logCalls' = logCalls \o <<LogEntry("error", "Failed to initialize 0G services", ""),
                               LogEntry("warn", "Failed to initialize 0G services", "")>>
  /\ initPc' = "failed"
  /\ UNCHANGED <<nodes, edges, behaviour, nodeType, nodeOperation, store, storage, apart, services, pc, plan,
                 cursor, outputs, results, ret, statusCalls, handlerCalls, modeCalls>>

NextTyped ==
  \/ StartWorkflow
  \/ BeginNode
  \/ HandlerReturns
  \/ HandlerThrows
  \/ FinishWorkflow
  \/ ComputeInitialized
  \/ StorageInitialized
  \/ StorageInitFails

SpecTyped == InitTyped /\ [][NextTyped]_vars

\* The operations a node of the given type can be configured with.
OperationsOf(type) ==
  CASE type = "storage" -> StorageOperations
    [] type = "chain-interaction" -> ChainOperations
    [] OTHER -> {"absent"}

\* Workflows of storage and chain-interaction nodes with an operation
\* configured, run by an engine built with or without a private key.
InitOperations ==
  /\ nodes \in {s \in TypedNodeLists : Len(s) <= MaxOperationNodes}
  /\ edges = <<>>
  /\ behaviour = [n \in Range(nodes) |-> "returns"]
  /\ nodeType \in [Range(nodes) -> {"storage", "chain-interaction"}]
  /\ nodeOperation \in [Range(nodes) -> StorageOperations \cup ChainOperations]
  /\ \A n \in Range(nodes) : nodeOperation[n] \in OperationsOf(nodeType[n])
  /\ InitStoreState
  /\ InitStorageState
  /\ InitApart
  /\ \E privateKey \in BOOLEAN :
       /\ services = IF privateKey THEN KeyServices ELSE NoServices
       /\ initPc = IF privateKey THEN "compute" ELSE "none"
  /\ InitRun

SpecOperations == InitOperations /\ [][NextTyped]_vars

\* ------------------------------------------------------- the workflow store
\* useWorkflowStore holds the node and edge lists; its executeWorkflow walks
\* the node list, and its finally block schedules the reset to idle. Callers
\* start a run only while isExecuting is false, as the page's button does.
engine == <<behaviour, nodeType, nodeOperation, clients, pc, plan, run, storage, apart>>

\* The <<from, to>> pairs of the statuses that differ between two maps.
Changes(old, new) == {<<old[n], new[n]>> : n \in {m \in DOMAIN old : old[m] # new[m]}}

\* set(state => nodes.map(n => n.id === nodeId ? {..., status} : n))
SetStatus(map, nodeId, value) ==
  IF nodeId \in DOMAIN map THEN [map EXCEPT ![nodeId] = value] ELSE map

\* A plausible slip: the finally block schedules no reset.
ScheduleResetDropped(timers) == timers

\* finally: setTimeout(() => set(... status: 'idle'), 3000)
ScheduleReset(timers) == timers + 1

InitStore ==
  /\ nodes \in NodeLists
  /\ edges \in EdgeLists(MaxStoreEdges)
  /\ behaviour = [n \in Range(nodes) |-> "returns"]
  /\ pc = "idle"
  /\ plan = NoPlan
  /\ InitAbstract
  /\ InitRun

\* executeWorkflow is called: isExecuting is set; with no nodes the guard
\* alerts and returns through the finally block; otherwise the first node is
\* set running and the call awaits its processing time.
StoreExecuteWorkflow ==
  /\ storePc = "idle"
  /\ ~isExecuting
  /\ runsStarted < MaxRuns
  /\ runsStarted' = runsStarted + 1
  /\ IF Len(nodes) = 0
     THEN /\ isExecuting' = FALSE
          /\ resetTimers' = ScheduleReset(resetTimers)
          /\ statusSets' = <<>>
          /\ UNCHANGED <<nodeStatus, storePc, loopIndex, statusChanges>>
     ELSE /\ isExecuting' = TRUE
          /\ loopIndex' = 1
          /\ nodeStatus' = SetStatus(nodeStatus, nodes[1], "running")
          /\ statusSets' = <<StatusCall(nodes[1], "running")>>
          /\ statusChanges' = statusChanges \cup Changes(nodeStatus, nodeStatus')
          /\ storePc' = "await"
          /\ UNCHANGED resetTimers
  /\ UNCHANGED <<nodes, edges, engine>>

\* The processing time of node loopIndex has passed: the node is set completed; the
\* loop goes on to set the next node running, or ends: the finally block
\* clears isExecuting and schedules the reset.
StoreNodeProcessed ==
  /\ storePc = "await"
  /\ LET completed == SetStatus(nodeStatus, nodes[loopIndex], "completed")
     IN IF loopIndex < Len(nodes)
        THEN /\ nodeStatus' = SetStatus(completed, nodes[loopIndex + 1], "running")
             /\ statusSets' = statusSets \o <<StatusCall(nodes[loopIndex], "completed"),
                                                StatusCall(nodes[loopIndex + 1], "running")>>
             /\ statusChanges' = statusChanges \cup Changes(nodeStatus, completed)
                                               \cup Changes(completed, nodeStatus')
             /\ loopIndex' = loopIndex + 1
             /\ UNCHANGED <<storePc, isExecuting, resetTimers>>
        ELSE /\ nodeStatus' = completed
             /\ statusSets' = Append(statusSets, StatusCall(nodes[loopIndex], "completed"))
             /\ statusChanges' = statusChanges \cup Changes(nodeStatus, completed)
             /\ isExecuting' = FALSE
             /\ resetTimers' = ScheduleReset(resetTimers)
             /\ storePc' = "idle"
             /\ UNCHANGED loopIndex
  /\ UNCHANGED <<nodes, edges, engine, runsStarted>>

\* A reset scheduled by a finally block fires: every node is set idle,
\* whatever run is in progress by then.
ResetFires ==
  /\ resetTimers > 0
  /\ resetTimers' = resetTimers - 1
  /\ nodeStatus' = [n \in DOMAIN nodeStatus |-> "idle"]
  /\ statusChanges' = statusChanges \cup Changes(nodeStatus, nodeStatus')
  /\ UNCHANGED <<nodes, edges, engine, isExecuting, storePc, loopIndex, runsStarted, statusSets>>

NextStore ==
  \/ StoreExecuteWorkflow
  \/ StoreNodeProcessed
  \/ ResetFires

SpecStore == InitStore /\ [][NextStore]_vars

\* -------------------------------------- the store with all its actions
\* The workflows the store holds or is handed by loadWorkflow.
LoadedNodeLists == {s \in NodeLists : Len(s) <= MaxLoadedNodes}

\* What the store's own actions leave alone.
besideStore == <<behaviour, nodeType, nodeOperation, clients, pc, plan, run, storage,
                 handlers, persistence, storePc, loopIndex, statusSets, statusChanges>>

\* s without its i-th element.
RemoveAt(s, i) == SubSeq(s, 1, i - 1) \o SubSeq(s, i + 1, Len(s))

InitStoreOps ==
  /\ nodes \in LoadedNodeLists
  /\ edges = <<>>
  /\ behaviour = [n \in Range(nodes) |-> "returns"]
  /\ InitAbstract
  /\ InitRun

\* executeWorkflow called through the execute action, which is enabled while
\* isExecuting is false: isExecuting is set, the nodes are read once, the
\* first node is set running and the call awaits its processing time. With no
\* nodes the call returns through the finally block at once.
ExecuteAction ==
  /\ ~isExecuting
  /\ runsStarted < MaxRuns
  /\ runsStarted' = runsStarted + 1
  /\ IF Len(nodes) = 0
     THEN /\ isExecuting' = FALSE
          /\ resetTimers' = ScheduleReset(resetTimers)
          /\ UNCHANGED <<nodeStatus, inFlight>>
     ELSE /\ isExecuting' = TRUE
          /\ nodeStatus' = SetStatus(nodeStatus, nodes[1], "running")
          /\ inFlight' = Append(inFlight, [captured |-> nodes, index |-> 1])
          /\ UNCHANGED resetTimers
  /\ UNCHANGED <<nodes, edges, besideStore>>

\* The processing time awaited by one of the calls in flight has passed: its
\* node is set completed in the nodes the store holds by then; the call goes
\* on to its next node, or leaves through the finally block.
AwaitElapsed ==
  \E r \in DOMAIN inFlight :
    LET call == inFlight[r]
        completed == SetStatus(nodeStatus, call.captured[call.index], "completed")
    IN /\ IF call.index < Len(call.captured)
          THEN /\ nodeStatus' = SetStatus(completed, call.captured[call.index + 1], "running")
               /\ inFlight' = [inFlight EXCEPT ![r].index = call.index + 1]
               /\ UNCHANGED <<isExecuting, resetTimers>>
          ELSE /\ nodeStatus' = completed
               /\ inFlight' = RemoveAt(inFlight, r)
               /\ isExecuting' = FALSE
               /\ resetTimers' = ScheduleReset(resetTimers)
       /\ UNCHANGED <<nodes, edges, besideStore, runsStarted>>

\* The reset scheduled by a finally block fires.
ResetElapsed ==
  /\ resetTimers > 0
  /\ resetTimers' = resetTimers - 1
  /\ nodeStatus' = [n \in DOMAIN nodeStatus |-> "idle"]
  /\ UNCHANGED <<nodes, edges, besideStore, isExecuting, runsStarted, inFlight>>

\* startExecution: set({ isExecuting: true })
StartExecution ==
  /\ ~isExecuting
  /\ isExecuting' = TRUE
  /\ UNCHANGED <<nodes, edges, besideStore, nodeStatus, resetTimers, runsStarted, inFlight>>

\* stopExecution: set({ isExecuting: false })
StopExecution ==
  /\ isExecuting
  /\ isExecuting' = FALSE
  /\ UNCHANGED <<nodes, edges, besideStore, nodeStatus, resetTimers, runsStarted, inFlight>>

\* clearWorkflow: set({ nodes: [], edges: [], isExecuting: false, ... })
ClearWorkflow ==
  /\ nodes' = <<>>
  /\ edges' = <<>>
  /\ nodeStatus' = <<>>
  /\ isExecuting' = FALSE
  /\ UNCHANGED <<besideStore, resetTimers, runsStarted, inFlight>>

\* loadWorkflow: set({ nodes: workflow.nodes, edges: workflow.edges,
\* isExecuting: false, ... })
LoadWorkflow ==
  \E loaded \in LoadedNodeLists :
    /\ nodes' = loaded
    /\ edges' = <<>>
    /\ nodeStatus' = [n \in Range(loaded) |-> "idle"]
    /\ isExecuting' = FALSE
    /\ UNCHANGED <<besideStore, resetTimers, runsStarted, inFlight>>

NextStoreOps ==
  \/ ExecuteAction
  \/ AwaitElapsed
  \/ ResetElapsed
  \/ StartExecution
  \/ StopExecution
  \/ ClearWorkflow
  \/ LoadWorkflow

SpecStoreOps == InitStoreOps /\ [][NextStoreOps]_vars

\* Timers fire: a pending processing time and a pending reset both elapse.
SpecStoreFair ==
  /\ InitStore
  /\ [][NextStore]_vars
  /\ WF_vars(StoreNodeProcessed)
  /\ WF_vars(ResetFires)

\* ------------------------------------------------------ the storage clients
\* StorageService (the client the engine's storage handler calls) and
\* ZGStorageService.downloadFile, called on an initialized client: a payload
\* is stored, the content held under its hash may be altered, and the hash
\* is retrieved.
Payloads == {"p", "q", "r"}

\* ethers.keccak256(buffer): distinct contents have distinct hashes.
Keccak256(content) == <<"0x", content>>

\* Buffer.from(`Simulated file content for ${rootHash}`)
SimulatedContent == "simulated file content"

\* StorageService.retrieveData: return { success: true, hash: params.hash,
\* metadata }: nothing is downloaded and no verified field is set.
ServiceRetrieval(hash, verify, held) ==
  [client |-> "StorageService", hash |-> hash, verify |-> verify,
   content |-> held, verified |-> "absent"]

\* ZGStorageService.downloadFile: when the indexer answers, the data is what
\* the network holds and verified compares its hash with rootHash if a proof
\* was asked for; when it does not, simulated data is returned with
\* verified: withProof.
Download(rootHash, withProof, responseOk, held) ==
  LET data == IF responseOk THEN held ELSE SimulatedContent
      verified == IF responseOk
                  THEN withProof /\ Keccak256(data) = rootHash
                  ELSE withProof
  IN [client |-> "ZGStorageService", hash |-> rootHash, verify |-> withProof,
      content |-> data, verified |-> IF verified THEN "true" ELSE "false"]

InitStorage ==
  /\ nodes = <<>>
  /\ edges = <<>>
  /\ behaviour = [n \in Range(nodes) |-> "returns"]
  /\ pc = "idle"
  /\ plan = NoPlan
  /\ InitAbstract
  /\ InitRun

\* storeData: the content hash of the payload is computed and returned.
StoreData ==
  /\ payload = "none"
  /\ \E p \in Payloads :
       /\ payload' = p
       /\ storedHash' = Keccak256(p)
       /\ remote' = p
  /\ UNCHANGED <<nodes, edges, behaviour, nodeType, nodeOperation, clients, pc, plan, run, store, apart, retrievals>>

\* The content held under the hash is altered between the two calls.
AlterContent ==
  /\ payload # "none"
  /\ \E c \in Payloads \ {remote} : remote' = c
  /\ UNCHANGED <<nodes, edges, behaviour, nodeType, nodeOperation, clients, pc, plan, run, store, apart,
                 payload, storedHash, retrievals>>

\* StorageService.retrieveData({ hash, verify })
RetrieveData ==
  /\ payload # "none"
  /\ Len(retrievals) < MaxRetrievals
  /\ \E verify \in BOOLEAN :
       retrievals' = Append(retrievals, ServiceRetrieval(storedHash, verify, remote))
  /\ UNCHANGED <<nodes, edges, behaviour, nodeType, nodeOperation, clients, pc, plan, run, store, apart,
                 payload, storedHash, remote>>

\* ZGStorageService.downloadFile({ rootHash, withProof })
DownloadFile ==
  /\ payload # "none"
  /\ Len(retrievals) < MaxRetrievals
  /\ \E withProof, responseOk \in BOOLEAN :
       retrievals' = Append(retrievals, Download(storedHash, withProof, responseOk, remote))
  /\ UNCHANGED <<nodes, edges, behaviour, nodeType, nodeOperation, clients, pc, plan, run, store, apart,
                 payload, storedHash, remote>>

NextStorage ==
  \/ StoreData
  \/ AlterContent
  \/ RetrieveData
  \/ DownloadFile

SpecStorage == InitStorage /\ [][NextStorage]_vars

\* ------------------------------------------ the input and logic handlers
\* JavaScript values: a kind, the literal of a scalar, the items of an array,
\* the property names of an object.
JsValue(kind, lit, items, props) ==
  [kind |-> kind, lit |-> lit, items |-> items, props |-> props]
Undefined == JsValue("undefined", "", <<>>, {})
Num(lit) == JsValue("number", lit, <<>>, {})
Bool(lit) == JsValue("boolean", lit, <<>>, {})
Str(lit) == JsValue("string", lit, <<>>, {})
Arr(items) == JsValue("array", "", items, {})
Obj(props) == JsValue("object", "", <<>>, props)

\* What `||` takes for true.
JsTruthy(v) ==
  CASE v.kind = "undefined" -> FALSE
    [] v.kind = "number" -> v.lit \notin {"0", "NaN"}
    [] v.kind = "boolean" -> v.lit = "true"
    [] v.kind = "string" -> v.lit # ""
    [] OTHER -> TRUE

\* node.data.config?.value: absent, or some value.
ConfigValues ==
  {Undefined, Num("0"), Num("42"), Bool("false"), Bool("true"), Str(""), Str("x"),
   Obj({"k"})}

\* getNodeInputs: { ...context.variables, previousOutputs: context.outputs }
MergedInputs == {Obj({"previousOutputs"}), Obj({"previousOutputs", "x"})}

\* The inputs of the logic handler: the merged object, or an array.
LogicInputs == MergedInputs \cup {Arr(items) : items \in SeqsUpTo({1, 2}, MaxItems)}

\* node.data.config?.operation of a logic node, "absent" when there is none.
LogicOperations == {"absent", "filter", "transform", "aggregate", "passthrough", "sort"}

\* return node.data.config?.value || inputData || {}
executeInputNode(configValue, inputData) ==
  IF JsTruthy(configValue) THEN configValue
  ELSE IF JsTruthy(inputData) THEN inputData
  ELSE Obj({})

\* A plausible slip: the count is 1 whatever the input.
CountOne(inputData) == 1

\* Array.isArray(inputData) ? inputData.length : 1
Count(inputData) == IF inputData.kind = "array" THEN Len(inputData.items) ELSE 1

\* The object a branch of executeLogicNode returns: its fields, and its result
\* field as the input itself, the input wrapped under a key, or the input
\* spread with further properties.
LogicResult(fields, wrappedIn, spreadWith, inputData, count) ==
  [fields |-> fields, success |-> TRUE,
   result |-> [wrappedIn |-> wrappedIn, spreadWith |-> spreadWith, value |-> inputData],
   count |-> count]

\* executeLogicNode: switch (node.data.config?.operation || 'passthrough')
executeLogicNode(operation, inputData) ==
  LET op == IF operation = "absent" THEN "passthrough" ELSE operation
  IN CASE op = "filter" ->
            LogicResult({"success", "result", "filtered"}, "", {}, inputData, 0)
       [] op = "transform" ->
            LogicResult({"success", "result", "operation"}, "", {"transformed"}, inputData, 0)
       [] op = "aggregate" ->
            LogicResult({"success", "result", "count"}, "aggregated", {}, inputData,
                        Count(inputData))
       [] OTHER ->
            LogicResult({"success", "result"}, "", {}, inputData, 0)

\* The calls of the two handlers.
HandlerCalls ==
  {[handler |-> "input", configValue |-> v, operation |-> "absent", inputData |-> d] :
     v \in ConfigValues, d \in MergedInputs}
  \cup
  {[handler |-> "logic", configValue |-> Undefined, operation |-> o, inputData |-> d] :
     o \in LogicOperations, d \in LogicInputs}

InitHandlers ==
  /\ nodes = <<>>
  /\ edges = <<>>
  /\ behaviour = [n \in Range(nodes) |-> "returns"]
  /\ pc = "idle"
  /\ plan = NoPlan
  /\ InitStoreState
  /\ InitStorageState
  /\ nodeType = [n \in Range(nodes) |-> "any"]
  /\ nodeOperation = [n \in Range(nodes) |-> "absent"]
  /\ services = NoServices
  /\ initPc = "none"
  /\ InitRun
  /\ InitFlights
  /\ InitPersistence
  /\ handlerCall \in {<<c>> : c \in HandlerCalls}
  /\ handlerReturn = <<>>

CallInputHandler ==
  /\ handlerReturn = <<>>
  /\ handlerCall[1].handler = "input"
  /\ handlerReturn' = <<executeInputNode(handlerCall[1].configValue, handlerCall[1].inputData)>>
  /\ UNCHANGED <<nodes, edges, behaviour, nodeType, nodeOperation, clients, pc, plan, run,
                 store, storage, flights, persistence, handlerCall>>

CallLogicHandler ==
  /\ handlerReturn = <<>>
  /\ handlerCall[1].handler = "logic"
  /\ handlerReturn' = <<executeLogicNode(handlerCall[1].operation, handlerCall[1].inputData)>>
  /\ UNCHANGED <<nodes, edges, behaviour, nodeType, nodeOperation, clients, pc, plan, run,
                 store, storage, flights, persistence, handlerCall>>

NextHandlers ==
  \/ CallInputHandler
  \/ CallLogicHandler

SpecHandlers == InitHandlers /\ [][NextHandlers]_vars

\* ------------------------------------------- WorkflowPersistenceService
\* What saveWorkflow leaves alone.
besidePersistence == <<nodes, edges, behaviour, nodeType, nodeOperation, clients, pc, plan,
                       run, store, storage, handlers, flights>>

\* A SavedWorkflow as createNewWorkflow builds it, before its first save.
InitSaves ==
  /\ nodes = <<>>
  /\ edges = <<>>
  /\ behaviour = [n \in Range(nodes) |-> "returns"]
  /\ InitAbstract
  /\ InitRun

\* saveWorkflow is called: the version object is built with
\* version: workflow.currentVersion + 1 and submitted to the DA layer, whose
\* answer the call awaits.
SaveWorkflow ==
  /\ savesStarted < MaxSaves
  /\ savesStarted' = savesStarted + 1
  /\ pendingSaves' = Append(pendingSaves, [version |-> currentVersion + 1])
  /\ UNCHANGED <<besidePersistence, currentVersion, versions>>

\* submitWorkflowVersion resolves with success and a hash: the version is
\* pushed, currentVersion is incremented and the call returns success.
SubmissionSucceeds ==
  \E i \in DOMAIN pendingSaves :
    /\ versions' = Append(versions, pendingSaves[i].version)
    /\ currentVersion' = currentVersion + 1
    /\ pendingSaves' = RemoveAt(pendingSaves, i)
    /\ UNCHANGED <<besidePersistence, savesStarted>>

\* submitWorkflowVersion resolves without success or without a hash: the
\* call throws into its catch block and returns success: false.
SubmissionFails ==
  \E i \in DOMAIN pendingSaves :
    /\ pendingSaves' = RemoveAt(pendingSaves, i)
    /\ UNCHANGED <<besidePersistence, savesStarted, currentVersion, versions>>

NextSaves ==
  \/ SaveWorkflow
  \/ SubmissionSucceeds
  \/ SubmissionFails

SpecSaves == InitSaves /\ [][NextSaves]_vars

\* ------------------------------------------------------------- graph notions
\* The source->target pairs of the accepted edges.
EdgeSet(ns, es) == Range(ValidEdges(ns, es))

\* Two consecutive pairs <<x, y>>, <<y, z>> give <<x, z>>.
Compose(pp) == <<pp[1][1], pp[2][2]>>

\* R extended n times by one more accepted edge.
RECURSIVE Extend(_, _, _)
Extend(R, E, n) ==
  IF n = 0 THEN R
  ELSE Extend(R \cup {Compose(pp) : pp \in {q \in R \X E : q[1][2] = q[2][1]}}, E, n - 1)

\* Pairs joined by a path of accepted edges (a simple path or cycle has at
\* most as many edges as there are nodes).
Reachable(ns, es) == Extend(EdgeSet(ns, es), EdgeSet(ns, es), Len(ns))

HasCycle(ns, es) == \E n \in Range(ns) : <<n, n>> \in Reachable(ns, es)

Acyclic(ns, es) == ~HasCycle(ns, es)

Order == plan.executionOrder

Terminal(status) == status \in {"completed", "error"}

\* The nodes at which executeNode returned success:false in this run.
FailedNodes == {n \in DOMAIN results : ~results[n].success}

\* What a run does when no callback throws: the handlers invoked, and the
\* success value returned, as decided by the plan and the handlers alone.
RECURSIVE QuietHandlerCalls(_)
QuietHandlerCalls(order) ==
  IF order = <<>> THEN <<>>
  ELSE IF behaviour[Head(order)] = "throws" THEN <<Head(order)>>
  ELSE <<Head(order)>> \o QuietHandlerCalls(Tail(order))

QuietSuccess(order) == \A k \in DOMAIN order : behaviour[order[k]] = "returns"

\* ------------------------------------------------------------------- claims

\* C1: for an acyclic graph, every edge s->t with both endpoints in the node
\* list has s in executionOrder, and before t when t is in it too.
C1_EdgesRespected ==
  (pc = "planned" /\ Acyclic(nodes, edges)) =>
    \A e \in EdgeSet(nodes, edges) :
      /\ e[1] \in Range(Order)
      /\ e[2] \in Range(Order) => IndexOf(Order, e[1]) < IndexOf(Order, e[2])

\* C2: for unique node ids and an edge list whose accepted edges are acyclic
\* (repeated source->target pairs included), executionOrder holds every node
\* id exactly once.
C2_OrderIsPermutation ==
  (pc = "planned" /\ Acyclic(nodes, edges)) =>
    /\ Len(Order) = Len(nodes)
    /\ Range(Order) = Range(nodes)

\* C3: executeWorkflow on an empty node list returns success:false, and calls
\* no handler and no node status callback.
C3_EmptyRunFails ==
  (pc = "done" /\ nodes = <<>> /\ ret.kind = "returned") =>
    /\ ~ret.success
    /\ handlerCalls = <<>>
    /\ statusCalls = <<>>

\* C4: once a node's execution has returned success:false, no node later in
\* executionOrder has its handler invoked or gets a status callback, and the
\* run returns success:false with a non-empty error.
C4_FailFast ==
  \A k \in DOMAIN Order :
    Order[k] \in FailedNodes =>
      /\ \A j \in (k + 1)..Len(Order) :
           /\ Order[j] \notin Range(handlerCalls)
           /\ \A c \in Range(statusCalls) : c.nodeId # Order[j]
      /\ pc = "done"
      /\ ret.kind = "returned"
      /\ ~ret.success
      /\ ret.error # NoError

\* C5: when a run fails at node B, the returned results map holds the
\* successful result of every node completed before B and B's failed result,
\* and nothing for the nodes after B.
C5_PartialResultsReturned ==
  (pc = "done" /\ ret.kind = "returned") =>
    \A k \in DOMAIN Order :
      (Order[k] \in FailedNodes /\ behaviour[Order[k]] = "throws") =>
        /\ DOMAIN ret.results = {Order[j] : j \in 1..k}
        /\ \A j \in 1..(k - 1) : ret.results[Order[j]].success
        /\ ~ret.results[Order[k]].success

\* C6: when the graph has a dependency cycle, executeWorkflow does not report
\* success.
C6_CycleNotSuccess ==
  (pc = "done" /\ ret.kind = "returned" /\ HasCycle(nodes, edges)) => ~ret.success

\* C7: per node, a terminal status call (completed or error) is preceded by a
\* running call, and two running calls have a terminal call between them.
C7_StatusOrder ==
  \A k \in DOMAIN statusCalls :
    LET c == statusCalls[k]
        same(j) == statusCalls[j].nodeId = c.nodeId
    IN /\ Terminal(c.status) =>
            \E j \in 1..(k - 1) : same(j) /\ statusCalls[j].status = "running"
       /\ c.status = "running" =>
            \A j \in 1..(k - 1) :
              (same(j) /\ statusCalls[j].status = "running") =>
                \E m \in (j + 1)..(k - 1) : same(m) /\ Terminal(statusCalls[m].status)

\* C7 witness: a run in which one node got running then completed and a later
\* node got running then error.
C7_Witness ==
  /\ pc = "done"
  /\ Len(statusCalls) = 4
  /\ statusCalls[2].status = "completed"
  /\ statusCalls[4].status = "error"

\* C8: when a node gets its running status, every node in plan.dependencies
\* for it has already got completed in this run.
C8_DependenciesCompleted ==
  \A k \in DOMAIN statusCalls :
    statusCalls[k].status = "running" =>
      \A d \in Range(plan.dependencies[statusCalls[k].nodeId]) :
        \E j \in 1..(k - 1) : statusCalls[j] = StatusCall(d, "completed")

\* C8 witness: a node with two dependencies has got its running status.
C8_Witness ==
  \E k \in DOMAIN statusCalls :
    /\ statusCalls[k].status = "running"
    /\ Cardinality(Range(plan.dependencies[statusCalls[k].nodeId])) = 2

\* C9: executeWorkflow returns success:true only if every node of
\* executionOrder got completed, and then results has an entry for exactly
\* the nodes of executionOrder, each with success true.
C9_SuccessMeansAllCompleted ==
  (ret.kind = "returned" /\ ret.success) =>
    /\ \A n \in Range(Order) : StatusCall(n, "completed") \in Range(statusCalls)
    /\ DOMAIN ret.results = Range(Order)
    /\ \A n \in DOMAIN ret.results : ret.results[n].success

\* C9 witness: a run over three nodes returned success:true.
C9_Witness ==
  /\ ret.kind = "returned"
  /\ ret.success
  /\ Len(Order) = 3

\* C10: a throwing callback does not abort the run: the handlers invoked and
\* the success value returned are those of the run with quiet callbacks.
C10_CallbackThrowHarmless ==
  pc = "done" =>
    LET order == createExecutionPlan(nodes, edges).executionOrder
    IN /\ ret.kind = "returned"
       /\ ret.success = QuietSuccess(order)
       /\ handlerCalls = QuietHandlerCalls(order)

\* C12: with zero edges the plan's executionOrder is a permutation of all the
\* node ids: its length is nodes.length and every node id occurs in it.
C12_ZeroEdgesPermutation ==
  (pc = "planned" /\ edges = <<>>) =>
    /\ Len(Order) = Len(nodes)
    /\ Range(Order) = Range(nodes)
    /\ \A i, j \in DOMAIN Order : Order[i] = Order[j] => i = j

\* A three-node plan without edges whose order is not the input order.
C12_Witness ==
  /\ pc = "planned"
  /\ edges = <<>>
  /\ Len(nodes) = MaxNodes
  /\ Len(Order) = MaxNodes
  /\ Order # nodes

\* The nodes that lie on a dependency cycle (a self-loop included).
OnCycle(ns, es) == {n \in Range(ns) : <<n, n>> \in Reachable(ns, es)}

\* The nodes reachable downstream from a node on a cycle.
DownstreamOfCycle(ns, es) ==
  {n \in Range(ns) : \E c \in OnCycle(ns, es) : <<c, n>> \in Reachable(ns, es)}

\* C20: executionOrder contains exactly the nodes that are neither on a
\* dependency cycle (a self-loop included) nor reachable downstream from one.
C20_OrderIsCycleFreePart ==
  pc = "planned" =>
    Range(Order) = Range(nodes) \ (OnCycle(nodes, edges) \cup DownstreamOfCycle(nodes, edges))

\* C20's example: for nodes A, B with edges A->B and B->A the order is empty.
C20_TwoCycleEmpty ==
  (pc = "planned" /\ Len(nodes) = 2
     /\ {<<nodes[1], nodes[2]>>, <<nodes[2], nodes[1]>>} \subseteq Range(edges)) =>
    Order = <<>>

\* No accepted edge occurs twice in the edge list.
DistinctEdges(ns, es) ==
  LET v == ValidEdges(ns, es) IN \A i, j \in DOMAIN v : v[i] = v[j] => i = j

\* C20 restricted to edge lists without a repeated edge.
C20_DistinctEdgesCycleFreePart ==
  (pc = "planned" /\ DistinctEdges(nodes, edges)) =>
    Range(Order) = Range(nodes) \ (OnCycle(nodes, edges) \cup DownstreamOfCycle(nodes, edges))

\* The messages executeNode logs for a node whatever the handler's mode.
NodeMessages == {"Executing node", "Node completed", "Node failed"}

\* Some log entry for the node other than executeNode's own three.
FallbackLogged(nodeId) ==
  \E k \in DOMAIN logCalls :
    logCalls[k].nodeId = nodeId /\ logCalls[k].message \notin NodeMessages

\* C13: whenever a handler produced its result by local simulation, the
\* result stored for the node carries a simulated tag and a log entry records
\* the fallback.
C13_SimulationIsMarked ==
  \A i \in DOMAIN modeCalls :
    (modeCalls[i].mode = "simulated" /\ modeCalls[i].nodeId \in DOMAIN outputs) =>
      /\ "simulated" \in outputs[modeCalls[i].nodeId][1].fields
      /\ FallbackLogged(modeCalls[i].nodeId)

\* C14: within one executeWorkflow call all the handler invocations that use
\* the same collaborator run in the same mode, live or simulated.
C14_ModeFixedPerRun ==
  \A i, j \in DOMAIN modeCalls :
    modeCalls[i].collaborator = modeCalls[j].collaborator =>
      modeCalls[i].mode = modeCalls[j].mode

\* The status calls made for one node, in order.
StatusesOf(nodeId) ==
  LET isFor(c) == c.nodeId = nodeId
      calls == SelectSeq(statusCalls, isFor)
  IN [k \in DOMAIN calls |-> calls[k].status]

\* C19: a node of unknown type that the run has reached received running and
\* then error and nothing else, has no entry in context.outputs, had no
\* handler invoked, and executeWorkflow has returned success: false.
C19_UnknownTypeFatal ==
  \A n \in Range(nodes) :
    (nodeType[n] \notin KnownTypes /\ StatusesOf(n) # <<>>) =>
      /\ StatusesOf(n) = <<"running", "error">>
      /\ n \notin DOMAIN outputs
      /\ n \notin Range(handlerCalls)
      /\ pc = "done"
      /\ ret.kind = "returned"
      /\ ret.success = FALSE
      /\ ret.error = <<"Node execution failed", n>> \o UnknownTypeError(nodeType[n])

\* C19 for the runs that did not end on a callback's exception.
C19_UnlessCallbackThrew ==
  \A n \in Range(nodes) :
    (/\ nodeType[n] \notin KnownTypes
     /\ StatusesOf(n) # <<>>
     /\ ret.kind = "returned"
     /\ ret.error # CallbackError) =>
      /\ StatusesOf(n) = <<"running", "error">>
      /\ n \notin DOMAIN outputs
      /\ n \notin Range(handlerCalls)
      /\ pc = "done"
      /\ ret.success = FALSE
      /\ ret.error = <<"Node execution failed", n>> \o UnknownTypeError(nodeType[n])

\* The status changes the store's nodes may make.
AllowedChanges ==
  {<<"idle", "running">>, <<"running", "completed">>, <<"running", "error">>,
   <<"completed", "idle">>, <<"error", "idle">>}

\* C15: in the workflow store every change of a node's status is one of
\* idle->running, running->completed, running->error, completed->idle,
\* error->idle, also when a second run starts before the reset of the first
\* has fired.
C15_StatusChangesAllowed == statusChanges \subseteq AllowedChanges

\* C15 for the first run and its reset alone.
C15_SingleRunChangesAllowed == runsStarted <= 1 => statusChanges \subseteq AllowedChanges

\* The positions in the current run's status writes where a write occurs.
SetAt(nodeId, value) ==
  {k \in DOMAIN statusSets : statusSets[k] = StatusCall(nodeId, value)}

\* C16: for every edge source->target between two nodes of the workflow, the
\* store's run sets the source running and completed before it sets the
\* target running.
C16_StoreOrderFollowsEdges ==
  \A e \in DOMAIN edges :
    LET source == edges[e][1]
        target == edges[e][2]
    IN (source \in Range(nodes) /\ target \in Range(nodes) /\ source # target) =>
         \A k \in SetAt(target, "running") :
           \E a, b \in 1..(k - 1) :
             /\ a < b
             /\ a \in SetAt(source, "running")
             /\ b \in SetAt(source, "completed")

AllIdle == \A n \in DOMAIN nodeStatus : nodeStatus[n] = "idle"

\* C17: after a store run has ended (through the loop or through the
\* empty-workflow guard), unless a further run is started, every node
\* eventually has status idle.
C17_EventuallyIdle ==
  \A k \in 1..MaxRuns :
    (runsStarted = k /\ storePc = "idle") ~> (AllIdle \/ runsStarted > k)

\* A run over three nodes has ended and its reset has put every node back.
C17_Witness ==
  /\ Len(nodes) = MaxNodes
  /\ runsStarted = 1
  /\ storePc = "idle"
  /\ resetTimers = 0
  /\ <<"completed", "idle">> \in statusChanges
  /\ AllIdle

\* C18: a retrieval with verify: true of the hash a store returned yields
\* verified: true exactly when the retrieved content hashes to that hash.
C18_VerifiedIffHashMatches ==
  \A k \in DOMAIN retrievals :
    retrievals[k].verify =>
      (retrievals[k].verified = "true"
         <=> Keccak256(retrievals[k].content) = retrievals[k].hash)

\* C18 for downloadFile when the indexer answers the request.
C18_AnsweredDownloadVerifies ==
  \A k \in DOMAIN retrievals :
    (/\ retrievals[k].verify
     /\ retrievals[k].client = "ZGStorageService"
     /\ retrievals[k].content # SimulatedContent) =>
      (retrievals[k].verified = "true"
         <=> Keccak256(retrievals[k].content) = retrievals[k].hash)

\* The nodes of the order that were ready when the queue was seeded.
InitiallyReady == {t \in Range(Order) : plan.dependencies[t] = <<>>}

\* The nodes of the order that became ready when x was popped: x is the last
\* of their dependencies in the order.
ReleasedBy(x) ==
  {t \in Range(Order) :
     /\ x \in Range(plan.dependencies[t])
     /\ \A d \in Range(plan.dependencies[t]) : IndexOf(Order, d) <= IndexOf(Order, x)}

\* The nodes of B stand in the order as they stand in the input node list.
InInputOrder(B) ==
  \A u, v \in B :
    IndexOf(nodes, u) < IndexOf(nodes, v) => IndexOf(Order, u) < IndexOf(Order, v)

\* C21: the nodes that become ready at the same time (the initial
\* zero-in-degree nodes, and the dependents released by one popped node) stand
\* in executionOrder in the order of the input node list, whatever their ids.
C21_TieBreakInputOrder ==
  pc = "planned" =>
    /\ InInputOrder(InitiallyReady)
    /\ \A x \in Range(Order) : InInputOrder(ReleasedBy(x))

\* C21 for node lists without an integer-like id.
C21_TieBreakWithoutIntegerIds ==
  (pc = "planned" /\ Range(nodes) \cap DOMAIN IntValue = {}) =>
    /\ InInputOrder(InitiallyReady)
    /\ \A x \in Range(Order) : InInputOrder(ReleasedBy(x))

\* The nodes that precede position k in the order.
Preceding(k) == {Order[j] : j \in 1..(k - 1)}

\* C22: while a node's handler is being awaited, context.outputs has an entry
\* for exactly the nodes that precede it in executionOrder, each of which got
\* its completed status; and whenever outputs has an entry for a node, that
\* node's handler was invoked and returned without throwing.
C22_OutputsAtInvocation ==
  /\ pc = "await" =>
       /\ DOMAIN outputs = Preceding(cursor)
       /\ \A n \in Preceding(cursor) : StatusCall(n, "completed") \in Range(statusCalls)
  /\ \A n \in DOMAIN outputs :
       \E k \in DOMAIN modeCalls :
         modeCalls[k].nodeId = n /\ modeCalls[k].outcome = "returns"

\* The handler of the third node of a run is being awaited.
C22_Witness ==
  /\ pc = "await"
  /\ cursor = 3
  /\ Cardinality(DOMAIN outputs) = 2

\* The work of a handler invocation failed: the handler threw, or the external
\* client it called reported failure in the value it returned.
WorkFailed(call) ==
  \/ call.outcome = "throws"
  \/ call.collaborator # "none" /\ ~call.result[1].success

\* The node has got a terminal status.
Settled(nodeId) == \E k \in DOMAIN StatusesOf(nodeId) : Terminal(StatusesOf(nodeId)[k])

\* C23: a node whose work failed inside its handler, by exception or by a
\* returned success:false, ends with status error, never completed, and the
\* run is aborted with success:false.
C23_FailedWorkIsError ==
  \A k \in DOMAIN modeCalls :
    (WorkFailed(modeCalls[k]) /\ Settled(modeCalls[k].nodeId)) =>
      /\ "completed" \notin Range(StatusesOf(modeCalls[k].nodeId))
      /\ "error" \in Range(StatusesOf(modeCalls[k].nodeId))
      /\ pc = "done"
      /\ ret.kind = "returned"
      /\ ~ret.success

\* C23 for the handlers that threw, in the runs that did not end on a
\* callback's exception.
C23_ThrownWorkIsError ==
  \A k \in DOMAIN modeCalls :
    (/\ modeCalls[k].outcome = "throws"
     /\ Settled(modeCalls[k].nodeId)
     /\ ret.kind = "returned"
     /\ ret.error # CallbackError) =>
      /\ StatusesOf(modeCalls[k].nodeId) = <<"running", "error">>
      /\ pc = "done"
      /\ ~ret.success

\* A state the code reaches: a client reported success:false, the node got
\* completed and the run went on to return success:true.
C23_ReportedFailureCompleted ==
  \E k \in DOMAIN modeCalls :
    /\ modeCalls[k].outcome = "returns"
    /\ WorkFailed(modeCalls[k])
    /\ StatusesOf(modeCalls[k].nodeId) = <<"running", "completed">>
    /\ ret.kind = "returned"
    /\ ret.success

\* The call of the given handler has returned.
Returned(handler) ==
  handlerCall # <<>> /\ handlerCall[1].handler = handler /\ handlerReturn # <<>>

\* C24: the input handler returns config.value whenever it is present,
\* whatever the value (0, false and the empty string included), otherwise the
\* merged inputData.
C24_InputReturnsConfigValue ==
  Returned("input") =>
    handlerReturn[1] = IF handlerCall[1].configValue.kind # "undefined"
                       THEN handlerCall[1].configValue
                       ELSE handlerCall[1].inputData

\* C24 for the config values other than 0, false and the empty string.
C24_InputReturnsTruthyConfigValue ==
  (Returned("input") /\ handlerCall[1].configValue \notin {Num("0"), Bool("false"), Str("")}) =>
    handlerReturn[1] = IF handlerCall[1].configValue.kind # "undefined"
                       THEN handlerCall[1].configValue
                       ELSE handlerCall[1].inputData

\* C25: aggregate returns success, result {aggregated: input} and count the
\* input's length for an array and 1 otherwise; filter returns the input with
\* filtered: true; transform returns the input with transformed: true merged
\* in; any other operation returns the input unchanged.
C25_LogicOperations ==
  Returned("logic") =>
    LET op == handlerCall[1].operation
        input == handlerCall[1].inputData
        out == handlerReturn[1]
        unchanged == out.result.wrappedIn = "" /\ out.result.spreadWith = {}
    IN /\ out.success
       /\ out.result.value = input
       /\ op = "aggregate" =>
            /\ out.result.wrappedIn = "aggregated"
            /\ out.result.spreadWith = {}
            /\ "count" \in out.fields
            /\ out.count = IF input.kind = "array" THEN Len(input.items) ELSE 1
       /\ op = "filter" => unchanged /\ "filtered" \in out.fields
       /\ op = "transform" =>
            out.result.wrappedIn = "" /\ out.result.spreadWith = {"transformed"}
       /\ op \notin {"aggregate", "filter", "transform"} =>
            unchanged /\ out.fields = {"success", "result"}

\* aggregate has returned for an array of the greatest length.
C25_Witness ==
  /\ Returned("logic")
  /\ handlerCall[1].operation = "aggregate"
  /\ Len(handlerCall[1].inputData.items) = MaxItems
  /\ handlerReturn[1].count = MaxItems

\* The node's last status is completed.
EndsCompleted(nodeId) ==
  StatusesOf(nodeId) # <<>> /\ StatusesOf(nodeId)[Len(StatusesOf(nodeId))] = "completed"

\* The node's recorded result is a defined value carrying a success field.
HasSuccessField(nodeId) ==
  /\ nodeId \in DOMAIN outputs
  /\ outputs[nodeId] # UndefinedResult
  /\ "success" \in outputs[nodeId][1].fields

\* C26: for every listed operation of a chain-interaction node and of a
\* storage node, in live and in simulated mode, a node that ends completed
\* has a defined result carrying a success field.
C26_CompletedHasSuccessField ==
  \A k \in DOMAIN modeCalls :
    (/\ modeCalls[k].collaborator \in {"storage", "chain"}
     /\ modeCalls[k].mode \in {"live", "simulated"}
     /\ EndsCompleted(modeCalls[k].nodeId)) =>
      HasSuccessField(modeCalls[k].nodeId)

\* C26 apart from the live chain-interaction operations other than execute.
C26_HandledOperationHasSuccessField ==
  \A k \in DOMAIN modeCalls :
    (/\ modeCalls[k].collaborator \in {"storage", "chain"}
     /\ modeCalls[k].mode \in {"live", "simulated"}
     /\ ~(/\ modeCalls[k].collaborator = "chain"
          /\ modeCalls[k].mode = "live"
          /\ nodeOperation[modeCalls[k].nodeId] \notin {"absent", "execute"})
     /\ EndsCompleted(modeCalls[k].nodeId)) =>
      HasSuccessField(modeCalls[k].nodeId)

\* A live chain-interaction node configured to deploy a contract has ended
\* completed and the run has returned success.
C26_UndefinedResultCompleted ==
  \E k \in DOMAIN modeCalls :
    /\ modeCalls[k].collaborator = "chain"
    /\ modeCalls[k].mode = "live"
    /\ nodeOperation[modeCalls[k].nodeId] = "deploy-contract"
    /\ EndsCompleted(modeCalls[k].nodeId)
    /\ ret.kind = "returned"
    /\ ret.success

\* C27: isExecuting is true whenever an executeWorkflow call of the store is
\* in flight, whatever other store actions are interleaved, and no two calls
\* are in flight together.
C27_RunsSerialized ==
  /\ inFlight # <<>> => isExecuting
  /\ Len(inFlight) <= 1

\* C27 where only executeWorkflow and its timers act on the store.
C27_SerializedWithoutOtherActions == storePc = "await" => isExecuting

\* Two executeWorkflow calls of the store are in flight together.
C27_OverlappingRuns == Len(inFlight) >= 2

\* C30: after any sequence of saveWorkflow calls, overlapping and failing
\* ones included, the version numbers in workflow.versions are pairwise
\* distinct and increase by one per entry.
C30_VersionsDistinctConsecutive ==
  /\ \A i, j \in DOMAIN versions : i # j => versions[i] # versions[j]
  /\ \A i \in DOMAIN versions : i > 1 => versions[i] = versions[i - 1] + 1

\* C30, second part: a failed save leaves versions and currentVersion unchanged.
C30_FailedSaveChangesNothing ==
  [][SubmissionFails => UNCHANGED <<versions, currentVersion>>]_vars

\* currentVersion counts the entries of versions.
C30_CurrentVersionCountsEntries == currentVersion = Len(versions)

\* Two saves that overlapped have both been recorded under the same number.
C30_DuplicateVersion ==
  \E i, j \in DOMAIN versions : i # j /\ versions[i] = versions[j]

\* The number of terminal status calls made for the node.
TerminalCalls(nodeId) ==
  Cardinality({k \in DOMAIN StatusesOf(nodeId) : Terminal(StatusesOf(nodeId)[k])})

\* C28: each executed node gets exactly one terminal status call, completed
\* or error and never both, and a node whose execution returned success:false
\* has no entry in context.outputs, also when a log or status callback throws
\* during the node's completion.
C28_OneTerminalStatus ==
  \A n \in Range(nodes) :
    /\ TerminalCalls(n) <= 1
    /\ n \in DOMAIN results => TerminalCalls(n) = 1
    /\ n \in FailedNodes => n \notin DOMAIN outputs

\* C28 for the nodes whose execution did not end on a callback's exception.
C28_UnlessCallbackThrew ==
  \A n \in Range(nodes) :
    (n \in DOMAIN results /\ results[n].error # CallbackError) =>
      /\ TerminalCalls(n) = 1
      /\ n \in FailedNodes => n \notin DOMAIN outputs

\* A node was reported completed and then error, and its failed execution
\* left an entry in context.outputs.
C28_CompletedThenError ==
  \E n \in Range(nodes) :
    /\ StatusesOf(n) = <<"running", "completed", "error">>
    /\ n \in FailedNodes
    /\ n \in DOMAIN outputs

\* The nodes that come after the node in executionOrder.
NodesAfter(nodeId) == {Order[j] : j \in (IndexOf(Order, nodeId) + 1)..Len(Order)}

\* The node ids whose outputs can be read through a recorded result: those of
\* the previousOutputs object the result carries, which is the live
\* context.outputs object when it is carried by reference.
SeenThrough(result) ==
  IF result.carries = <<>> THEN {}
  ELSE IF result.carries[1].previousOutputs = OutputsReference THEN DOMAIN outputs
  ELSE DOMAIN result.carries[1].previousOutputs

\* C29: the result recorded for a completed node, in context.outputs and in
\* results, does not gain the outputs of nodes that complete afterwards.
C29_RecordedResultFrozen ==
  \A n \in DOMAIN outputs :
    /\ outputs[n] # UndefinedResult => SeenThrough(outputs[n][1]) \cap NodesAfter(n) = {}
    /\ (n \in DOMAIN results /\ results[n].success /\ results[n].result # UndefinedResult) =>
         SeenThrough(results[n].result[1]) \cap NodesAfter(n) = {}

\* C29 for the map itself: an entry of context.outputs, once written, is not
\* assigned again.
C29_EntriesNeverReassigned ==
  [][\A n \in DOMAIN outputs : n \in DOMAIN outputs' /\ outputs'[n] = outputs[n]]_vars

\* The result recorded for a completed input node shows the output of a node
\* that completed after it.
C29_LaterOutputSeen ==
  \E n \in DOMAIN outputs :
    /\ nodeType[n] = "input"
    /\ StatusesOf(n) = <<"running", "completed">>
    /\ SeenThrough(outputs[n][1]) \cap NodesAfter(n) # {}

====
